---------------------------- MODULE Spec2Model ----------------------------
(***************************************************************************)
(* Model of ipl_analysis.py: a one-shot pipeline                           *)
(*   load_data -> seven analyses (aggregate, draw, save, show)             *)
(*             -> print_summary.                                           *)
(* A table (pandas DataFrame) is a sequence of records, one per row.  A    *)
(* pandas Series is a sequence of [key, val] records in index order.       *)
(* None/NaN is the value Null.                                             *)
(***************************************************************************)
EXTENDS Integers, Sequences, FiniteSets, TLC

Null == "<null>"

(***************************************************************************)
(* Bounds of the model                                                     *)
(***************************************************************************)
\* rows of the longest matches.csv / deliveries.csv the model reads
MaxRows == 12
\* distinct grouping keys the longest input file cycles through
MaxKeys == 11
\* process launches (python ipl_analysis.py) on the same working directory
MaxRuns == 2
\* distinct states the process-wide generator may hold at process start
NumEntropy == 2

(***************************************************************************)
(* Program constants                                                       *)
(***************************************************************************)
SEED == 42
n == 800
n_del == 5000
TeamCap == 8
TopCap == 10

teams ==
  << "Mumbai Indians", "Chennai Super Kings", "Royal Challengers Bangalore",
     "Kolkata Knight Riders", "Delhi Capitals", "Sunrisers Hyderabad",
     "Rajasthan Royals", "Punjab Kings" >>

seasons == [i \in 1..15 |-> 2007 + i]

cities == << "Mumbai", "Chennai", "Bangalore", "Kolkata", "Delhi", "Hyderabad" >>

pom_players ==
  << "V Kohli", "MS Dhoni", "RG Sharma", "AB de Villiers",
     "SK Raina", "KA Pollard", "SR Watson", "DA Warner" >>

players ==
  << "V Kohli", "MS Dhoni", "RG Sharma", "AB de Villiers", "SK Raina",
     "KA Pollard", "SR Watson", "DA Warner", "RR Pant", "HH Pandya" >>

toss_decisions == << "bat", "field" >>

run_values == << 0, 1, 2, 3, 4, 6 >>

\* p=[0.35,0.30,0.12,0.03,0.12,0.08] as cumulative percent thresholds
batsman_runs_cum == << 35, 65, 77, 80, 92, 100 >>

\* p=[0.85,0.10,0.05]
extra_runs_cum == << 85, 95, 100 >>

dismissed_pool == players \o << Null, Null, Null, Null, Null >>

sample_dismissal_kinds == << "caught", "bowled", "lbw", "run out", Null >>

legal_dismissals ==
  { "caught", "bowled", "lbw", "stumped", "caught and bowled", "hit wicket" }

CHART_FILES ==
  [ analysis_team_wins         |-> "1_team_wins.png",
    analysis_season_matches    |-> "2_season_matches.png",
    analysis_top_batsmen       |-> "3_top_batsmen.png",
    analysis_top_bowlers       |-> "4_top_bowlers.png",
    analysis_toss_impact       |-> "5_toss_impact.png",
    analysis_player_of_match   |-> "6_player_of_match.png",
    analysis_runs_distribution |-> "7_runs_distribution.png" ]

(***************************************************************************)
(* Python's str ordering (used by groupby, which sorts its keys) on the    *)
(* strings that occur as group keys in the model.                          *)
(***************************************************************************)
StrOrder ==
  << "A Nehra", "AB de Villiers", "B Kumar", "DA Warner", "HH Pandya",
     "KA Pollard", "MS Dhoni", "RG Sharma", "RR Pant", "SK Raina",
     "SR Watson", "V Kohli", "bat", "field" >>

StrRank(s) == CHOOSE i \in DOMAIN StrOrder : StrOrder[i] = s

(***************************************************************************)
(* Small helpers                                                           *)
(***************************************************************************)
Min2(a, b) == IF a <= b THEN a ELSE b

Range(s) == { s[i] : i \in DOMAIN s }

Reverse(s) == [i \in 1..Len(s) |-> s[Len(s) + 1 - i]]

\* Series.head(k)
head(s, k) == SubSeq(s, 1, Min2(k, Len(s)))

\* the elements of S as a sequence, ascending by rank (rank is injective on S)
RECURSIVE OrderBy(_, _)
OrderBy(S, rank) ==
  IF S = {} THEN << >>
  ELSE LET x == CHOOSE y \in S : \A z \in S : rank[y] <= rank[z]
       IN  << x >> \o OrderBy(S \ {x}, rank)

RECURSIVE SumOver(_, _)
SumOver(S, f) ==
  IF S = {} THEN 0
  ELSE LET x == CHOOSE y \in S : TRUE
       IN  f[x] + SumOver(S \ {x}, f)

\* number of rows of col equal to k
CountOf(col, k) == Cardinality({ i \in DOMAIN col : col[i] = k })

\* distinct non-null values of an object (string) column
Distinct(col) == Range(col) \ { Null }

FirstIndex(col, k) ==
  CHOOSE i \in DOMAIN col : col[i] = k /\ \A j \in 1..(i - 1) : col[j] # k

(***************************************************************************)
(* Sorting and grouping, as pandas computes them                           *)
(***************************************************************************)
\* The order of equal values after sort_values is fixed by the sort kernel
\* of the installed build, not by the program: "stable" keeps the incoming
\* order of ties, "reversed" inverts it.
TieOrders == { "stable", "reversed" }

InsertDesc(sorted, x, tb) ==
  LET p == Cardinality({ i \in DOMAIN sorted :
                           \/ sorted[i].val > x.val
                           \/ sorted[i].val = x.val /\ tb = "stable" })
  IN  SubSeq(sorted, 1, p) \o << x >> \o SubSeq(sorted, p + 1, Len(sorted))

\* Series.sort_values(ascending=False)
RECURSIVE sort_values_desc(_, _)
sort_values_desc(s, tb) ==
  IF s = << >> THEN << >>
  ELSE InsertDesc(sort_values_desc(SubSeq(s, 1, Len(s) - 1), tb), s[Len(s)], tb)

\* the Series with index ord and the value f[k] at key k
series(ord, f) == [i \in 1..Len(ord) |-> [key |-> ord[i], val |-> f[ord[i]]]]

\* counts per distinct value, in order of first occurrence
counts_unsorted(col, keys) ==
  series(OrderBy(keys, [k \in keys |-> FirstIndex(col, k)]),
         [k \in keys |-> CountOf(col, k)])

\* value_counts with ascending=True
value_counts_ascending(col, tb) ==
  Reverse(sort_values_desc(counts_unsorted(col, Distinct(col)), tb))

\* Series.value_counts() of an object column: nulls dropped, descending by count
value_counts(col, tb) ==
  sort_values_desc(counts_unsorted(col, Distinct(col)), tb)

\* Series.value_counts() of an int64 column (which holds no nulls)
value_counts_int(col, tb) ==
  sort_values_desc(counts_unsorted(col, Range(col)), tb)

\* the keys of an index in ascending order
ascending_int(keys) == OrderBy(keys, [k \in keys |-> k])

ascending_str(keys) == OrderBy(keys, [k \in keys |-> StrRank(k)])

\* Series.sort_index() of a Series with an integer index
sort_index(s) ==
  series(ascending_int({ s[i].key : i \in DOMAIN s }),
         [k \in { s[i].key : i \in DOMAIN s } |->
            s[CHOOSE j \in DOMAIN s : s[j].key = k].val])

\* the keys of a groupby: distinct non-null values, sorted ascending
group_keys_int(col) == ascending_int(Range(col))

group_keys_str(col) == ascending_str(Distinct(col))

(***************************************************************************)
(* The process-wide generator behind np.random.  Its state is a key and a  *)
(* position; a draw is a fixed function of both.  The function below       *)
(* stands in for NumPy's Mersenne Twister, whose only property the program *)
(* relies on is that equal states give equal draws.                        *)
(***************************************************************************)
Mix(key, c) ==
  LET h == (c * (7919 + 2 * key) + 104729) % 46337
  IN  (h * h + key + c) % 46337

\* np.random.choice(pool, size)[i]
choice(pool, g, at) == pool[(Mix(g.key, g.pos + at) % Len(pool)) + 1]

\* np.random.randint(lo, hi, size)[i]
randint(lo, hi, g, at) == lo + (Mix(g.key, g.pos + at) % (hi - lo))

\* np.random.choice(pool, size, p=...)[i], p given as cumulative percents
choice_p(pool, cum, g, at) ==
  LET u == Mix(g.key, g.pos + at) % 100
  IN  pool[CHOOSE j \in DOMAIN cum :
             u < cum[j] /\ \A k \in 1..(j - 1) : u >= cum[k]]

\* the generator is left as it was (no call of np.random.seed)
seed_skipped(g) == g

\* np.random.seed(42)
seed(g) == [key |-> SEED, pos |-> 0]

sample_matches(g) ==
  [i \in 1..n |->
     [id              |-> i,
      season          |-> choice(seasons, g, i - 1),
      city            |-> choice(cities, g, n + i - 1),
      team1           |-> choice(teams, g, 2 * n + i - 1),
      team2           |-> choice(teams, g, 3 * n + i - 1),
      winner          |-> choice(teams, g, 4 * n + i - 1),
      win_by_runs     |-> randint(0, 100, g, 5 * n + i - 1),
      win_by_wickets  |-> randint(0, 10, g, 6 * n + i - 1),
      player_of_match |-> choice(pom_players, g, 7 * n + i - 1),
      toss_winner     |-> choice(teams, g, 8 * n + i - 1),
      toss_decision   |-> choice(toss_decisions, g, 9 * n + i - 1)]]

sample_deliveries(g) ==
  LET b == 10 * n
  IN  [i \in 1..n_del |->
         [match_id         |-> randint(1, n + 1, g, b + i - 1),
          inning           |-> choice(<< 1, 2 >>, g, b + n_del + i - 1),
          batting_team     |-> choice(teams, g, b + 2 * n_del + i - 1),
          bowling_team     |-> choice(teams, g, b + 3 * n_del + i - 1),
          batsman          |-> choice(players, g, b + 4 * n_del + i - 1),
          bowler           |-> choice(players, g, b + 5 * n_del + i - 1),
          batsman_runs     |-> choice_p(run_values, batsman_runs_cum, g,
                                        b + 6 * n_del + i - 1),
          extra_runs       |-> choice_p(<< 0, 1, 2 >>, extra_runs_cum, g,
                                        b + 7 * n_del + i - 1),
          total_runs       |-> choice(run_values, g, b + 8 * n_del + i - 1),
          player_dismissed |-> choice(dismissed_pool, g, b + 9 * n_del + i - 1),
          dismissal_kind   |-> choice(sample_dismissal_kinds, g,
                                      b + 10 * n_del + i - 1)]]

\* generate_sample_data(): the two tables and the generator it leaves behind
generate_sample_data(g0) ==
  [matches    |-> sample_matches(seed(g0)) \o << >>,
   deliveries |-> sample_deliveries(seed(g0)) \o << >>,
   rng        |-> [key |-> seed(g0).key,
                   pos |-> seed(g0).pos + 10 * n + 11 * n_del]]

(***************************************************************************)
(* Contents of matches.csv and deliveries.csv that the model reads.  They  *)
(* follow the schema of the dataset: winner is null (no result) or one of  *)
(* the two teams; a delivery names a dismissed player exactly when it has  *)
(* a dismissal kind, except in SplitDeliveries, whose two dismissal        *)
(* columns are independent of each other as in generate_sample_data.       *)
(***************************************************************************)
team_pool == << "A", "B" >> \o teams

player_pool == << "A Nehra", "B Kumar" >> \o players

kind_pool ==
  << "caught", "bowled", "run out", Null, "lbw", "stumped",
     "caught and bowled", Null, "hit wicket", "run out" >>

Pick(pool, k) == pool[(k % Len(pool)) + 1]

Slot(i, m) == ((i * 7) % 13) % m

MatchRow(i, t1, t2, w) ==
  [id              |-> i,
   season          |-> 2008 + ((i * 5) % 4),
   city            |-> Pick(cities, i),
   team1           |-> t1,
   team2           |-> t2,
   winner          |-> w,
   win_by_runs     |-> IF w = t1 THEN 10 + i ELSE 0,
   win_by_wickets  |-> IF w = t2 THEN 1 + (i % 9) ELSE 0,
   player_of_match |-> Pick(player_pool, Slot(i + 3, 12)),
   toss_winner     |-> IF i % 2 = 0 THEN t1 ELSE t2,
   toss_decision   |-> IF i % 3 = 1 THEN "bat" ELSE "field"]

\* the three-row table of the end-to-end example: A wins twice, B once
ExampleMatches ==
  << MatchRow(1, "A", "B", "A"), MatchRow(2, "B", "A", "A"),
     MatchRow(3, "A", "B", "B") >>

\* a season with a single abandoned match
NoResultMatches == << MatchRow(1, "A", "B", Null) >>

PatternMatches(len, m) ==
  [i \in 1..len |->
     LET home == Pick(team_pool, Slot(i, m))
         away == Pick(team_pool, Slot(i, m) + 1)
     IN  MatchRow(i, IF i % 2 = 0 THEN home ELSE away,
                  IF i % 2 = 0 THEN away ELSE home,
                  IF i % 8 = 0 THEN Null ELSE home)]

DeliveryRow(i, m, kind, out) ==
  LET runs == Pick(run_values, i * 5)
      xtra == IF i % 3 = 0 THEN 1 ELSE 0
  IN  [match_id         |-> 1 + (i % 3),
       inning           |-> 1 + (i % 2),
       batting_team     |-> Pick(team_pool, i),
       bowling_team     |-> Pick(team_pool, i + 1),
       batsman          |-> Pick(player_pool, Slot(i, m)),
       bowler           |-> Pick(player_pool, Slot(i + 5, m)),
       batsman_runs     |-> runs,
       extra_runs       |-> xtra,
       total_runs       |-> runs + xtra,
       player_dismissed |-> out,
       dismissal_kind   |-> kind]

PatternDeliveries(len, m) ==
  [i \in 1..len |->
     LET kind == Pick(kind_pool, i - 1)
     IN  DeliveryRow(i, m, kind,
                     IF kind = Null THEN Null ELSE Pick(player_pool, Slot(i, m)))]

SplitDeliveries(len, m) ==
  [i \in 1..len |->
     DeliveryRow(i, m, Pick(kind_pool, i - 1),
                 IF i % 4 < 2 THEN Null ELSE Pick(player_pool, Slot(i, m)))]

File(status, data) == [status |-> status, data |-> data]

Dir(m, d) == [matches |-> m, deliveries |-> d]

Missing == File("missing", << >>)

Malformed == File("malformed", << >>)

\* the working directories the model starts from
InputFiles ==
  { Dir(Missing, Missing),
    Dir(Missing, Malformed),
    Dir(File("ok", ExampleMatches), Missing),
    Dir(Malformed, Missing),
    Dir(File("ok", ExampleMatches), Malformed),
    Dir(File("ok", ExampleMatches), File("ok", PatternDeliveries(3, 2))),
    Dir(File("ok", ExampleMatches),
        File("ok", SplitDeliveries(MaxRows - 2, 3))),
    Dir(File("ok", NoResultMatches), File("ok", PatternDeliveries(3, 2))),
    Dir(File("ok", PatternMatches(MaxRows, MaxKeys)),
        File("ok", PatternDeliveries(MaxRows, MaxKeys))),
    Dir(File("ok", PatternMatches(MaxRows, 3)),
        File("ok", SplitDeliveries(MaxRows, MaxKeys))) }

(***************************************************************************)
(* The seven aggregations                                                  *)
(***************************************************************************)
winner_col(matches) == [i \in DOMAIN matches |-> matches[i].winner]

\* matches['winner'].value_counts() without .head(8)
wins_uncapped(matches, tb) == value_counts(winner_col(matches), tb)

\* matches['winner'].value_counts().head(8)
wins(matches, tb) == head(value_counts(winner_col(matches), tb), TeamCap)

\* matches.groupby('season').size()
season_counts(matches) ==
  series(group_keys_int([i \in DOMAIN matches |-> matches[i].season]),
         [k \in { matches[i].season : i \in DOMAIN matches } |->
            Cardinality({ i \in DOMAIN matches : matches[i].season = k })])

\* the sum of batsman_runs over the rows (row numbers) of one group
sum_runs(deliveries, rows) ==
  SumOver({ deliveries[i].batsman_runs : i \in rows },
          [v \in { deliveries[i].batsman_runs : i \in rows } |->
             v * Cardinality({ i \in rows : deliveries[i].batsman_runs = v })])

\* deliveries.groupby('batsman')['batsman_runs'].sum()
runs_by_batsman(deliveries) ==
  series(group_keys_str([i \in DOMAIN deliveries |-> deliveries[i].batsman]),
         [b \in { deliveries[i].batsman : i \in DOMAIN deliveries } \ { Null } |->
            sum_runs(deliveries,
                     { i \in DOMAIN deliveries : deliveries[i].batsman = b })])

\* ... .sort_values(ascending=False).head(10)
top_batsmen(deliveries, tb) ==
  head(sort_values_desc(runs_by_batsman(deliveries), tb), TopCap)

\* the filter with run-outs credited to the bowler as well
is_wicket_or_run_out(row) ==
  row.dismissal_kind \in legal_dismissals \cup { "run out" }

\* deliveries['dismissal_kind'].isin(legal_dismissals)
is_wicket(row) == row.dismissal_kind \in legal_dismissals

\* wickets.groupby('bowler')['player_dismissed'].count(): per bowler the
\* number of rows of wickets whose player_dismissed is not null
dismissals_by_bowler(wickets) ==
  series(group_keys_str([i \in DOMAIN wickets |-> wickets[i].bowler]),
         [b \in { wickets[i].bowler : i \in DOMAIN wickets } \ { Null } |->
            Cardinality({ i \in DOMAIN wickets :
                            /\ wickets[i].bowler = b
                            /\ wickets[i].player_dismissed # Null })])

\* wickets = deliveries[deliveries['dismissal_kind'].isin(legal_dismissals)]
\* ... .sort_values(ascending=False).head(10)
top_bowlers(deliveries, tb) ==
  head(sort_values_desc(dismissals_by_bowler(SelectSeq(deliveries, is_wicket)),
                        tb),
       TopCap)

\* toss['toss_win_match'] = toss['toss_winner'] == toss['winner']
toss_win_match(row) == row.toss_winner = row.winner

\* the mean scaled by 1000 instead of 100
mean_percent_skewed(matches, rows) ==
  [num |-> 1000 * Cardinality({ i \in rows : toss_win_match(matches[i]) }),
   den |-> Cardinality(rows)]

\* the mean of toss_win_match over the rows of one group, times 100, as the
\* exact fraction num/den
mean_percent(matches, rows) ==
  [num |-> 100 * Cardinality({ i \in rows : toss_win_match(matches[i]) }),
   den |-> Cardinality(rows)]

\* toss.groupby('toss_decision')['toss_win_match'].mean() * 100
toss_impact(matches) ==
  series(group_keys_str([i \in DOMAIN matches |-> matches[i].toss_decision]),
         [d \in { matches[i].toss_decision : i \in DOMAIN matches } |->
            mean_percent(matches,
                         { i \in DOMAIN matches : matches[i].toss_decision = d })])

\* matches['toss_decision'].value_counts()
toss_counts(matches, tb) ==
  value_counts([i \in DOMAIN matches |-> matches[i].toss_decision], tb)

\* matches['player_of_match'].value_counts().head(10)
top_players(matches, tb) ==
  head(value_counts([i \in DOMAIN matches |-> matches[i].player_of_match], tb),
       TopCap)

\* deliveries['batsman_runs'].value_counts().sort_index()
runs_dist(deliveries, tb) ==
  sort_index(value_counts_int(
    [i \in DOMAIN deliveries |-> deliveries[i].batsman_runs], tb))

(***************************************************************************)
(* print_summary                                                           *)
(***************************************************************************)
NoReport ==
  [printed |-> FALSE, total_matches |-> 0, season_min |-> 0, season_max |-> 0,
   total_runs |-> 0, boundaries |-> 0, best_team |-> Null,
   top_scorer |-> Null, top_pom |-> Null]

\* Series.idxmax(): the first key holding the largest value
idxmax(s) ==
  s[CHOOSE i \in DOMAIN s :
      /\ \A j \in DOMAIN s : s[j].val <= s[i].val
      /\ \A j \in 1..(i - 1) : s[j].val < s[i].val].key

\* .index[0] of an empty Series raises IndexError, idxmax of one ValueError
summary_raises(matches, deliveries) ==
  \/ \A i \in DOMAIN matches : matches[i].winner = Null
  \/ \A i \in DOMAIN matches : matches[i].player_of_match = Null
  \/ \A i \in DOMAIN deliveries : deliveries[i].batsman = Null

\* Series.min() / Series.max() over the set of values of a column
min_of(S) == CHOOSE y \in S : \A z \in S : y <= z

max_of(S) == CHOOSE y \in S : \A z \in S : y >= z

\* deliveries['total_runs'].sum()
sum_total_runs(deliveries) ==
  SumOver({ deliveries[i].total_runs : i \in DOMAIN deliveries },
          [v \in { deliveries[i].total_runs : i \in DOMAIN deliveries } |->
             v * Cardinality({ i \in DOMAIN deliveries :
                                 deliveries[i].total_runs = v })])

summary(matches, deliveries, tb) ==
  [printed       |-> TRUE,
   total_matches |-> Len(matches),
   season_min    |-> min_of({ matches[i].season : i \in DOMAIN matches }),
   season_max    |-> max_of({ matches[i].season : i \in DOMAIN matches }),
   total_runs    |-> sum_total_runs(deliveries),
   boundaries    |-> Cardinality({ i \in DOMAIN deliveries :
                                     deliveries[i].batsman_runs \in {4, 6} }),
   best_team     |-> value_counts(winner_col(matches), tb)[1].key,
   top_scorer    |-> idxmax(runs_by_batsman(deliveries)),
   top_pom       |->
     value_counts([i \in DOMAIN matches |-> matches[i].player_of_match],
                  tb)[1].key]

(***************************************************************************)
(* load_data                                                               *)
(***************************************************************************)
\* except Exception: every failed read falls back to the sample data
recovered_any(status) == status # "ok"

\* except FileNotFoundError
recovered(status) == status = "missing"

\* the try block of load_data: the first read that fails decides
first_failure(files) ==
  IF files.matches.status # "ok" THEN files.matches.status
  ELSE files.deliveries.status

\* the except branch: the warning, then return generate_sample_data()
fallback(sample) ==
  [outcome |-> "returned", matches |-> sample.matches,
   deliveries |-> sample.deliveries, warned |-> TRUE, generated |-> TRUE,
   rng |-> sample.rng]

load_data(files, g) ==
  IF first_failure(files) = "ok"
  THEN [outcome |-> "returned", matches |-> files.matches.data,
        deliveries |-> files.deliveries.data, warned |-> FALSE,
        generated |-> FALSE, rng |-> g]
  ELSE IF recovered(first_failure(files))
  THEN fallback(generate_sample_data(g))
  ELSE [outcome |-> "raised", matches |-> << >>, deliveries |-> << >>,
        warned |-> FALSE, generated |-> FALSE, rng |-> g]

(***************************************************************************)
(* main: the state of one process and of its working directory             *)
(***************************************************************************)
VARIABLES
  files,       \* matches.csv and deliveries.csv in the working directory
  backend,     \* the matplotlib backend of the installation
  tie,         \* the tie order of the installed sort kernel
  run,         \* number of the current process launch
  rng,         \* state of the process-wide np.random generator
  pc,          \* the call of main that runs next, or "done" / "crashed"
  matches,     \* main's local tables
  deliveries,
  warned,      \* the fallback warning was printed
  generated,   \* generate_sample_data was called
  started,     \* calls of main entered so far, in order
  completed,   \* calls of main that returned, in order
  failed,      \* the call whose exception ended main, or "none"
  tables,      \* the summary table each analysis computed
  charts,      \* what each analysis drew into the chart it saved
  saved,       \* chart files written by this process, in order
  figs,        \* figures pyplot holds open
  report,      \* the summary block print_summary printed
  prev         \* report and chart files of the previous launch, if it finished

vars ==
  << files, backend, tie, run, rng, pc, matches, deliveries, warned,
     generated, started, completed, failed, tables, charts, saved, figs, report,
     prev >>

Backends == { "agg", "gui" }

AnalysisSteps ==
  { "analysis_team_wins", "analysis_season_matches", "analysis_top_batsmen",
    "analysis_top_bowlers", "analysis_toss_impact", "analysis_player_of_match",
    "analysis_runs_distribution" }

\* main with the bowlers and batsmen analyses exchanged
main_order_swapped ==
  << "load_data", "analysis_team_wins", "analysis_season_matches",
     "analysis_top_bowlers", "analysis_top_batsmen", "analysis_toss_impact",
     "analysis_player_of_match", "analysis_runs_distribution",
     "print_summary" >>

\* the calls of main, top to bottom
main_order ==
  << "load_data", "analysis_team_wins", "analysis_season_matches",
     "analysis_top_batsmen", "analysis_top_bowlers", "analysis_toss_impact",
     "analysis_player_of_match", "analysis_runs_distribution",
     "print_summary" >>

\* the statement of main that follows the call of step
after(step) ==
  LET i == CHOOSE j \in DOMAIN main_order : main_order[j] = step
  IN  IF i = Len(main_order) THEN "done" ELSE main_order[i + 1]

NoTables ==
  [ analysis_team_wins         |-> << >>,
    analysis_season_matches    |-> << >>,
    analysis_top_batsmen       |-> << >>,
    analysis_top_bowlers       |-> << >>,
    analysis_toss_impact       |-> [toss_impact |-> << >>, toss_counts |-> << >>],
    analysis_player_of_match   |-> << >>,
    analysis_runs_distribution |-> << >> ]

NoCharts ==
  [ analysis_team_wins         |-> << >>,
    analysis_season_matches    |-> << >>,
    analysis_top_batsmen       |-> << >>,
    analysis_top_bowlers       |-> << >>,
    analysis_toss_impact       |-> [pie |-> << >>, bar |-> << >>],
    analysis_player_of_match   |-> << >>,
    analysis_runs_distribution |-> << >> ]

\* the marks an analysis puts on its canvas, first to last: ax.bar and
\* ax.plot take the table as it is, ax.barh takes it reversed ([::-1]), the
\* toss figure has a pie of toss_impact and bars of toss_counts
drawn(step, table) ==
  IF step \in { "analysis_top_batsmen", "analysis_player_of_match" }
  THEN Reverse(table)
  ELSE IF step = "analysis_toss_impact"
  THEN [pie |-> table.toss_impact, bar |-> table.toss_counts]
  ELSE table

NoPrev == [status |-> "none", report |-> NoReport, saved |-> << >>]

\* plt.show(): a window backend blocks until the user has closed the
\* windows, which destroys the figures; a non-interactive backend returns
\* at once and the figures stay registered with pyplot
show(open, be) == IF be = "gui" THEN {} ELSE open

\* the state in which a process enters main, its generator being g
Fresh(g) ==
  [rng |-> g, pc |-> main_order[1], matches |-> << >>, deliveries |-> << >>,
   warned |-> FALSE, generated |-> FALSE, started |-> << >>,
   completed |-> << >>, failed |-> "none", tables |-> NoTables,
   charts |-> NoCharts,
   saved |-> << >>, figs |-> {}, report |-> NoReport]

Init ==
  /\ files \in InputFiles
  /\ backend \in Backends
  /\ tie \in TieOrders
  /\ run = 1
  /\ prev = NoPrev
  /\ \E k \in 1..NumEntropy :
       LET f == Fresh([key |-> k, pos |-> 0])
       IN  /\ rng = f.rng
           /\ pc = f.pc
           /\ matches = f.matches
           /\ deliveries = f.deliveries
           /\ warned = f.warned
           /\ generated = f.generated
           /\ started = f.started
           /\ completed = f.completed
           /\ failed = f.failed
           /\ tables = f.tables
           /\ charts = f.charts
           /\ saved = f.saved
           /\ figs = f.figs
           /\ report = f.report

\* an exception leaves main: nothing after the failing call runs
Raise(step) ==
  /\ pc' = "crashed"
  /\ failed' = step
  /\ started' = Append(started, step)
  /\ UNCHANGED << completed, tables, charts, saved, report >>

Return(step) ==
  /\ pc' = after(step)
  /\ started' = Append(started, step)
  /\ completed' = Append(completed, step)
  /\ failed' = failed

\* matches, deliveries = load_data(), r being what the call gives
Loaded(r) ==
  /\ rng' = r.rng
  /\ warned' = r.warned
  /\ generated' = r.generated
  /\ matches' = r.matches
  /\ deliveries' = r.deliveries
  /\ IF r.outcome = "returned"
     THEN Return("load_data") /\ UNCHANGED << tables, charts, saved, report >>
     ELSE Raise("load_data")

LoadData ==
  /\ pc = "load_data"
  /\ Loaded(load_data(files, rng))
  /\ UNCHANGED << files, backend, tie, run, figs, prev >>

\* one analysis: aggregate, plt.subplots, draw, plt.savefig, plt.show.
\* savefig either writes the file or raises (the directory is not writable,
\* the disk is full); table is the summary table the analysis computes.
Analysis(step, table) ==
  /\ pc = step
  /\ \E written \in BOOLEAN :
       IF written
       THEN /\ Return(step)
            /\ tables' = [tables EXCEPT ![step] = table]
            /\ charts' = [charts EXCEPT ![step] = drawn(step, table)]
            /\ saved' = Append(saved, CHART_FILES[step])
            /\ figs' = show(figs \cup {step}, backend)
            /\ report' = report
       ELSE /\ Raise(step)
            /\ figs' = figs \cup {step}
  /\ UNCHANGED << files, backend, tie, run, rng, matches, deliveries, warned,
                  generated, prev >>

analysis_team_wins == Analysis("analysis_team_wins", wins(matches, tie))

analysis_season_matches ==
  Analysis("analysis_season_matches", season_counts(matches))

analysis_top_batsmen ==
  Analysis("analysis_top_batsmen", top_batsmen(deliveries, tie))

analysis_top_bowlers ==
  Analysis("analysis_top_bowlers", top_bowlers(deliveries, tie))

analysis_toss_impact ==
  Analysis("analysis_toss_impact",
           [toss_impact |-> toss_impact(matches),
            toss_counts |-> toss_counts(matches, tie)])

analysis_player_of_match ==
  Analysis("analysis_player_of_match", top_players(matches, tie))

analysis_runs_distribution ==
  Analysis("analysis_runs_distribution", runs_dist(deliveries, tie))

print_summary ==
  /\ pc = "print_summary"
  /\ IF summary_raises(matches, deliveries)
     THEN Raise("print_summary")
     ELSE /\ Return("print_summary")
          /\ report' = summary(matches, deliveries, tie)
          /\ UNCHANGED << tables, charts, saved >>
  /\ UNCHANGED << files, backend, tie, run, rng, matches, deliveries, warned,
                  generated, figs, prev >>

\* if __name__ == "__main__": main()  -- the script is started again in the
\* same working directory; the new process starts from fresh generator state
Launch ==
  /\ pc \in { "done", "crashed" }
  /\ run < MaxRuns
  /\ run' = run + 1
  /\ prev' = IF pc = "done"
             THEN [status |-> "done", report |-> report, saved |-> saved]
             ELSE [status |-> "crashed", report |-> NoReport, saved |-> << >>]
  /\ \E k \in 1..NumEntropy :
       LET f == Fresh([key |-> k, pos |-> 0])
       IN  /\ rng' = f.rng
           /\ pc' = f.pc
           /\ matches' = f.matches
           /\ deliveries' = f.deliveries
           /\ warned' = f.warned
           /\ generated' = f.generated
           /\ started' = f.started
           /\ completed' = f.completed
           /\ failed' = f.failed
           /\ tables' = f.tables
           /\ charts' = f.charts
           /\ saved' = f.saved
           /\ figs' = f.figs
           /\ report' = f.report
  /\ UNCHANGED << files, backend, tie >>

Next ==
  \/ LoadData
  \/ analysis_team_wins
  \/ analysis_season_matches
  \/ analysis_top_batsmen
  \/ analysis_top_bowlers
  \/ analysis_toss_impact
  \/ analysis_player_of_match
  \/ analysis_runs_distribution
  \/ print_summary
  \/ Launch

Spec == Init /\ [][Next]_vars

(***************************************************************************)
(* Properties                                                              *)
(***************************************************************************)
IsPrefix(a, b) == Len(a) <= Len(b) /\ a = SubSeq(b, 1, Len(a))

\* step is the call of main that returned last
Just(step) == completed # << >> /\ completed[Len(completed)] = step

NonIncreasing(s) == \A i \in 1..(Len(s) - 1) : s[i].val >= s[i + 1].val

KeysIncreasing(s) == \A i \in 1..(Len(s) - 1) : s[i].key < s[i + 1].key

PipelineOrder ==
  << "load_data", "analysis_team_wins", "analysis_season_matches",
     "analysis_top_batsmen", "analysis_top_bowlers", "analysis_toss_impact",
     "analysis_player_of_match", "analysis_runs_distribution",
     "print_summary" >>

\* the chart files of the analyses among the first k calls of the pipeline
ChartsOfFirst(k) ==
  [i \in 1..(IF k = 0 THEN 0 ELSE Min2(k - 1, 7)) |->
     CHART_FILES[PipelineOrder[i + 1]]]

\* C1: in a run of main the calls are entered in the fixed order load_data,
\* the seven analyses, print_summary, each at most once; a call is entered
\* only when all earlier calls have returned; and once a call has failed no
\* later call is entered, no later chart is written and no summary printed.
C1_FixedOrder ==
  /\ IsPrefix(started, PipelineOrder)
  /\ IsPrefix(completed, started)
  /\ Len(started) <= Len(completed) + 1
  /\ saved = ChartsOfFirst(Len(completed))
  /\ report.printed <=> Len(completed) = Len(PipelineOrder)
  /\ (failed = "none") <=> (started = completed)
  /\ failed # "none" =>
       /\ pc = "crashed"
       /\ started = Append(completed, failed)
  /\ pc = "done" => completed = PipelineOrder

C1_Witness ==
  /\ pc = "crashed"
  /\ failed = "analysis_toss_impact"
  /\ saved = << "1_team_wins.png", "2_season_matches.png",
                "3_top_batsmen.png", "4_top_bowlers.png" >>

\* C2: load_data has three outcomes.  Both files read: the two tables are
\* returned as read.  A file missing (matches.csv, or deliveries.csv after
\* matches.csv was read): the warning is printed, the tables are those of
\* generate_sample_data, and neither load_data nor print_summary fails on
\* them.  Any other failed read: the exception leaves load_data and main,
\* nothing is generated and no analysis is entered.
BothRead ==
  files.matches.status = "ok" /\ files.deliveries.status = "ok"

FileMissing ==
  \/ files.matches.status = "missing"
  \/ files.matches.status = "ok" /\ files.deliveries.status = "missing"

SeededAt0 == [key |-> 42, pos |-> 0]

C2_LoadOutcomes ==
  started # << >> =>
    IF BothRead
    THEN /\ failed # "load_data"
         /\ matches = files.matches.data
         /\ deliveries = files.deliveries.data
         /\ ~warned /\ ~generated
    ELSE IF FileMissing
    THEN /\ failed \notin { "load_data", "print_summary" }
         /\ warned /\ generated
         /\ Len(matches) = 800 /\ Len(deliveries) = 5000
         /\ \A i \in { 1, 800 } : matches[i] = sample_matches(SeededAt0)[i]
         /\ \A i \in { 1, 5000 } :
              deliveries[i] = sample_deliveries(SeededAt0)[i]
    ELSE /\ pc = "crashed" /\ failed = "load_data"
         /\ started = << "load_data" >> /\ completed = << >>
         /\ ~warned /\ ~generated
         /\ matches = << >> /\ deliveries = << >>
         /\ saved = << >> /\ ~report.printed

C2_Witness ==
  /\ files.matches.status = "ok"
  /\ files.deliveries.status = "missing"
  /\ generated /\ warned
  /\ pc = "done"
  /\ report.printed

\* C3: every summary table respects its cap and its order: team wins has at
\* most 8 rows, top batsmen, top bowlers and player-of-match at most 10, each
\* in non-increasing order of its values; season counts are in strictly
\* increasing order of season, the runs distribution in strictly increasing
\* order of runs value.
Computed(step) == \E i \in DOMAIN completed : completed[i] = step

C3_CapsAndOrder ==
  /\ Computed("analysis_team_wins") =>
       /\ Len(tables.analysis_team_wins) <= 8
       /\ NonIncreasing(tables.analysis_team_wins)
  /\ Computed("analysis_season_matches") =>
       KeysIncreasing(tables.analysis_season_matches)
  /\ Computed("analysis_top_batsmen") =>
       /\ Len(tables.analysis_top_batsmen) <= 10
       /\ NonIncreasing(tables.analysis_top_batsmen)
  /\ Computed("analysis_top_bowlers") =>
       /\ Len(tables.analysis_top_bowlers) <= 10
       /\ NonIncreasing(tables.analysis_top_bowlers)
  /\ Computed("analysis_player_of_match") =>
       /\ Len(tables.analysis_player_of_match) <= 10
       /\ NonIncreasing(tables.analysis_player_of_match)
  /\ Computed("analysis_runs_distribution") =>
       KeysIncreasing(tables.analysis_runs_distribution)

\* more than 8 winners and more than 10 batsmen and awardees in the input,
\* seasons and runs out of order in the input, and unequal counts to sort
C3_Witness ==
  /\ pc = "done"
  /\ Cardinality({ matches[i].winner : i \in DOMAIN matches } \ { Null }) > 8
  /\ Cardinality({ deliveries[i].batsman : i \in DOMAIN deliveries }) > 10
  /\ Cardinality({ matches[i].player_of_match : i \in DOMAIN matches }) > 10
  /\ Len(tables.analysis_team_wins) = 8
  /\ Len(tables.analysis_top_batsmen) = 10
  /\ Len(tables.analysis_player_of_match) = 10
  /\ tables.analysis_team_wins[1].val > tables.analysis_team_wins[8].val
  /\ tables.analysis_top_batsmen[1].val > tables.analysis_top_batsmen[10].val
  /\ tables.analysis_top_bowlers # << >>
  /\ \E i \in 2..Len(matches) : matches[i].season < matches[i - 1].season
  /\ \E i \in 2..Len(deliveries) :
       deliveries[i].batsman_runs < deliveries[i - 1].batsman_runs
  /\ Len(tables.analysis_season_matches) > 2
  /\ Len(tables.analysis_runs_distribution) > 2

\* C4: a bowler's wicket count never includes a delivery whose dismissal
\* kind is null or outside caught, bowled, lbw, stumped, caught and bowled,
\* hit wicket: each count is at most the number of that bowler's deliveries
\* with such a kind, and the table is the one computed from the deliveries
\* with all run-out and null-kind rows removed.
BowlerCredited ==
  { "caught", "bowled", "lbw", "stumped", "caught and bowled", "hit wicket" }

HasKind(row) == row.dismissal_kind \notin { "run out", Null }

C4_OnlyCreditedKinds ==
  Just("analysis_top_bowlers") =>
    /\ \A e \in Range(tables.analysis_top_bowlers) :
         e.val <= Cardinality({ i \in DOMAIN deliveries :
                                  /\ deliveries[i].bowler = e.key
                                  /\ deliveries[i].dismissal_kind
                                       \in BowlerCredited })
    /\ tables.analysis_top_bowlers
         = top_bowlers(SelectSeq(deliveries, HasKind), tie)

\* a listed bowler with a wicket who also bowled a run-out delivery naming
\* a dismissed player, and a null-kind delivery
C4_Witness ==
  /\ Just("analysis_top_bowlers")
  /\ \E e \in Range(tables.analysis_top_bowlers) :
       /\ e.val > 0
       /\ \E i \in DOMAIN deliveries :
            /\ deliveries[i].bowler = e.key
            /\ deliveries[i].dismissal_kind = "run out"
            /\ deliveries[i].player_dismissed # Null
       /\ \E i \in DOMAIN deliveries :
            /\ deliveries[i].bowler = e.key
            /\ deliveries[i].dismissal_kind = Null

\* C5: the toss-impact percentage of every toss decision lies in [0, 100]
\* (as the fraction num/den: 0 <= num <= 100 * den, den > 0), and the raw
\* toss-decision counts add up to the number of match rows.
C5_TossBounds ==
  Just("analysis_toss_impact") =>
    /\ \A e \in Range(tables.analysis_toss_impact.toss_impact) :
         /\ e.key \in { "bat", "field" }
         /\ e.val.den > 0
         /\ 0 <= e.val.num
         /\ e.val.num <= 100 * e.val.den
    /\ SumOver(DOMAIN tables.analysis_toss_impact.toss_counts,
               [i \in DOMAIN tables.analysis_toss_impact.toss_counts |->
                  tables.analysis_toss_impact.toss_counts[i].val])
         = Len(matches)

\* both decisions occur, one of them with a share strictly between 0 and 100
C5_Witness ==
  /\ Computed("analysis_toss_impact")
  /\ Len(tables.analysis_toss_impact.toss_impact) = 2
  /\ Len(tables.analysis_toss_impact.toss_counts) = 2
  /\ \E e \in Range(tables.analysis_toss_impact.toss_impact) :
       0 < e.val.num /\ e.val.num < 100 * e.val.den
  /\ \E e \in Range(tables.analysis_toss_impact.toss_impact) :
       e.val.num > 10 * e.val.den

\* C6: the team-wins chart has one bar per distinct non-null winner, up to
\* 8; each bar's height is the number of match rows that team won; a team
\* with more wins comes before a team with fewer, and no team left out has
\* more wins than a team drawn; for the three-row table in which A wins
\* twice and B once the bars are A at 2, then B at 1.
WinsOf(team) ==
  Cardinality({ i \in DOMAIN matches : matches[i].winner = team })

Winners == { matches[i].winner : i \in DOMAIN matches } \ { Null }

C6_TeamWinBars ==
  Just("analysis_team_wins") =>
    LET bars == charts.analysis_team_wins
    IN  /\ Len(bars) = Min2(8, Cardinality(Winners))
        /\ \A i \in DOMAIN bars :
             /\ bars[i].key \in Winners
             /\ bars[i].val = WinsOf(bars[i].key)
             /\ \A j \in DOMAIN bars : bars[j].key = bars[i].key => j = i
             /\ \A j \in DOMAIN bars :
                  WinsOf(bars[i].key) > WinsOf(bars[j].key) => i < j
             /\ \A t \in Winners \ { bars[j].key : j \in DOMAIN bars } :
                  WinsOf(t) <= bars[i].val
        /\ [i \in DOMAIN matches |-> matches[i].winner] = << "A", "A", "B" >>
             => bars = << [key |-> "A", val |-> 2], [key |-> "B", val |-> 1] >>

C6_Witness ==
  /\ Computed("analysis_team_wins")
  /\ [i \in DOMAIN matches |-> matches[i].winner] = << "A", "A", "B" >>
  /\ charts.analysis_team_wins
       = << [key |-> "A", val |-> 2], [key |-> "B", val |-> 1] >>

\* C7: a finished run that follows a finished run on the same input files
\* prints the same summary and writes the same seven chart files; and the
\* tables of the fallback have 800 and 5000 rows and come from a generator
\* seeded with 42, whatever state it was in when the process started.
C7_Deterministic ==
  /\ pc = "done" =>
       saved = << "1_team_wins.png", "2_season_matches.png",
                  "3_top_batsmen.png", "4_top_bowlers.png",
                  "5_toss_impact.png", "6_player_of_match.png",
                  "7_runs_distribution.png" >>
  /\ pc = "done" /\ prev.status = "done" =>
       /\ report = prev.report
       /\ saved = prev.saved
  /\ generated =>
       /\ Len(matches) = 800 /\ Len(deliveries) = 5000
       /\ rng.key = 42

C7_Witness ==
  /\ run = 2
  /\ pc = "done"
  /\ prev.status = "done"
  /\ generated
  /\ report.printed
  /\ report.total_matches = 800

\* C8: every match row of the tables load_data returns, the generated ones
\* included, has a winner that is null or one of the row's two teams.
C8_WinnerPlayed ==
  \A i \in DOMAIN matches :
    \/ matches[i].winner = Null
    \/ matches[i].winner \in { matches[i].team1, matches[i].team2 }

\* C9: no summary table lists a key with a count of zero; in particular
\* top bowlers lists no bowler with 0 wickets, also when a delivery with a
\* bowler-credited dismissal kind has a null player_dismissed.
CountTables ==
  { "analysis_team_wins", "analysis_season_matches", "analysis_top_bowlers",
    "analysis_player_of_match", "analysis_runs_distribution" }

C9_NoZeroEntries ==
  /\ \A step \in CountTables :
       Computed(step) => \A e \in Range(tables[step]) : e.val >= 1
  /\ Computed("analysis_top_batsmen") =>
       \A e \in Range(tables.analysis_top_batsmen) :
         \E i \in DOMAIN deliveries : deliveries[i].batsman = e.key
  /\ Computed("analysis_toss_impact") =>
       \A e \in Range(tables.analysis_toss_impact.toss_counts) : e.val >= 1

\* C10: every analysis releases its figure once the image is written, so at
\* most one figure is open at any point of the pipeline, none is open after
\* an analysis has returned, and none is open when print_summary starts.
C10_FiguresReleased ==
  /\ Cardinality(figs) <= 1
  /\ failed = "none" => figs = {}
  /\ pc = "print_summary" => figs = {}

=============================================================================
